---- MODULE Spec2Model ----
(***************************************************************************)
(* settlement-automation: the schedule importer (src/day.py) and the       *)
(* settlement submitter (src/main.py), which share nothing but the         *)
(* settlement_day table.                                                   *)
(*                                                                         *)
(* Text is modelled as a sequence of one-character strings, so that        *)
(* LOWER(), str.strip() and the regular expression of clean_day_columns    *)
(* act character by character.  Characters outside ASCII are written by    *)
(* their code point ("U+2713" is the check mark).  A withdraw-days         *)
(* descriptor is a sequence of lexemes (a word, ",", " ", "(", ")"): the   *)
(* importer's regular expression, split and strip only ever look at the    *)
(* parentheses, the commas and the blanks, and compare whole words.        *)
(*                                                                         *)
(* A row of settlement_day is modelled by the columns the two scripts read  *)
(* or compare: id, merchant_name, store_name, from_date, the seven day      *)
(* columns and is_default_date.  The audit column updated_at, which the     *)
(* UPDATE statements set to NOW() and nothing reads, is left out.           *)
(*                                                                         *)
(* A date is a day number, day 0 being Monday 2024-03-04; the clock counts *)
(* half-hours of UTC since 2024-03-04T00:00Z.                              *)
(***************************************************************************)
EXTENDS Integers, Sequences, FiniteSets, TLC

\* ------------------------------------------------------------------ bounds
\* The last calendar day (Asia/Dhaka) the clock may reach.
MaxDay == 1
\* The longest settlement-day report (rows of the downloaded CSV).
MaxReportLen == 2
\* The number of importer-script runs and of submitter runs in a behaviour,
\* and of runs of either script where both take part.
MaxImpRuns == 2
MaxSubRuns == 2
MaxRuns == 2
\* The longest day-column value of the marker specification.
MaxMarkLen == 4
\* The longest generated withdraw-days descriptor, in lexemes.
MaxDescLen == 3

\* ------------------------------------------------------- program constants
\* '2030-01-01', the "not yet activated" from_date, as a day number.
Sentinel == 2129
\* Asia/Dhaka is UTC+6: twelve half-hours.
BD_TZ == 12
HalfHoursPerDay == 48

DAYS_OF_WEEK == <<"Monday", "Tuesday", "Wednesday", "Thursday",
                  "Friday", "Saturday", "Sunday">>

DayNames == {DAYS_OF_WEEK[i] : i \in 1..Len(DAYS_OF_WEEK)}

\* --------------------------------------------------------------------- text
\* str.lower() / SQL LOWER() on the letters the model's names are made of.
ToLowerChar(c) ==
    CASE c = "A" -> "a" [] c = "B" -> "b" [] c = "S" -> "s"
      [] c = "N" -> "n" [] c = "O" -> "o" [] c = "E" -> "e"
      [] c = "T" -> "t" [] c = "R" -> "r" [] c = "U" -> "u"
      [] OTHER -> c

Lower(s) == [i \in 1..Len(s) |-> ToLowerChar(s[i])]

IsSpace(c) == c = " "

RECURSIVE LStrip(_)
LStrip(s) == IF s # <<>> /\ IsSpace(Head(s)) THEN LStrip(Tail(s)) ELSE s

RECURSIVE RStrip(_)
RStrip(s) ==
    IF s # <<>> /\ IsSpace(s[Len(s)]) THEN RStrip(SubSeq(s, 1, Len(s) - 1)) ELSE s

\* str.strip()
Strip(s) == RStrip(LStrip(s))

\* A missing CSV cell: pandas reads it as NaN.
NaN == <<"<NaN>">>

\* str(value) of a CSV cell: str(float('nan')) is 'nan'.
Str(cell) == IF cell = NaN THEN <<"n", "a", "n">> ELSE cell

\* The empty day column, and the marker day.py writes: the three characters
\* U+00E2 U+0153 U+201C (a check mark's UTF-8 bytes read as cp1252).
EmptyMark == <<>>
ImporterMark == <<"U+00E2", "U+0153", "U+201C">>

\* ------------------------------------------------------------------- clock
\* datetime.now(BD_TZ).date()
BdDate(t) == (t + BD_TZ) \div HalfHoursPerDay

\* strftime("%A") of a date
WeekdayName(d) == DAYS_OF_WEEK[(d % 7) + 1]

get_bd_today(t) == BdDate(t)

get_bd_today_name(t) == WeekdayName(BdDate(t))

\* get_bd_now() - timedelta(days=1), as a date
get_bd_yesterday(t) == BdDate(t - HalfHoursPerDay)

\* ------------------------------------------------------ importer: parsing
\* re.sub(r"\(.*?\)", "", text): every "(" up to the nearest ")" goes.
RECURSIVE RemoveParens(_)
RemoveParens(s) ==
    IF s = <<>> THEN <<>>
    ELSE IF Head(s) = "(" /\ \E j \in 2..Len(s) : s[j] = ")"
         THEN LET j == CHOOSE k \in 2..Len(s) :
                          /\ s[k] = ")"
                          /\ \A l \in 2..(k - 1) : s[l] # ")"
              IN RemoveParens(SubSeq(s, j + 1, Len(s)))
         ELSE <<Head(s)>> \o RemoveParens(Tail(s))

\* text.split(","): the parts between the commas.
RECURSIVE SplitComma(_)
SplitComma(s) ==
    IF \A i \in 1..Len(s) : s[i] # "," THEN <<s>>
    ELSE LET i == CHOOSE k \in 1..Len(s) :
                      s[k] = "," /\ \A l \in 1..(k - 1) : s[l] # ","
         IN <<SubSeq(s, 1, i - 1)>> \o SplitComma(SubSeq(s, i + 1, Len(s)))

\* parse_days(text): a weekday is on iff one comma-separated part, stripped,
\* is exactly its name.
parse_days(cell) ==
    LET clean == RemoveParens(IF cell = NaN THEN <<"nan">> ELSE cell)
        parts == SplitComma(clean)
    IN [d \in DayNames |->
          IF \E p \in 1..Len(parts) : Strip(parts[p]) = <<d>>
          THEN ImporterMark ELSE EmptyMark]

NoDays == [d \in DayNames |-> EmptyMark]

\* ----------------------------------------------------- submitter: markers
\* \w of Python's re on the characters of the model: letters, digits, "_".
WordChars == {"a", "b", "s", "n", "o", "e", "t", "r", "u", "x",
              "A", "B", "S", "N", "O", "E", "T", "R", "U", "X",
              "0", "1", "_", "U+00E2", "U+0153"}

\* The class [\w U+2713 U+2714 x X 1] whose complement _c removes.
KeptByClean(c) == c \in WordChars \cup {"U+2713", "U+2714", "x", "X", "1"}

\* _c(val) of clean_day_columns
CleanMark(val) ==
    IF Lower(Strip(val)) \in {<<>>, <<"n", "o", "n", "e">>, <<"n", "a", "n">>}
    THEN <<>>
    ELSE Strip(SelectSeq(val, KeptByClean))

\* clean_day_columns(df): _c mapped over the seven day columns.
clean_day_columns(df) ==
    [i \in 1..Len(df) |->
        [df[i] EXCEPT !.days = [d \in DayNames |-> CleanMark(df[i].days[d])]]]

\* The values main() accepts in today's column.
DueMarkers == {<<"1">>, <<"U+2713">>, <<"U+2714">>, <<"x">>, <<"X">>}

IsDueRow(row, name) == Strip(row.days[name]) \in DueMarkers

\* df[df[bd_today_name]....isin([...])]: the rows due today, in read order.
RECURSIVE FilterDue(_, _)
FilterDue(df, name) ==
    IF df = <<>> THEN <<>>
    ELSE (IF IsDueRow(Head(df), name) THEN <<Head(df)>> ELSE <<>>)
         \o FilterDue(Tail(df), name)

\* ------------------------------------------------------------ table writes
\* A variant of update_from_date without its WHERE clause.
UpdateEveryFromDate(tbl, record_id, t) ==
    [i \in 1..Len(tbl) |-> [tbl[i] EXCEPT !.from_date = get_bd_today(t)]]

\* update_from_date(record_id): UPDATE ... SET from_date=:d WHERE id=:i,
\* with d = get_bd_today() at the time of the write.
update_from_date(tbl, record_id, t) ==
    [i \in 1..Len(tbl) |->
        IF tbl[i].id = record_id
        THEN [tbl[i] EXCEPT !.from_date = get_bd_today(t)]
        ELSE tbl[i]]

\* A variant that leaves the day columns as they are.
KeepDayColumns(tbl) == tbl

\* clear_day_columns(): UPDATE settlement_day SET "Monday"='', ..., "Sunday"=''
clear_day_columns(tbl) ==
    [i \in 1..Len(tbl) |-> [tbl[i] EXCEPT !.days = NoDays]]

\* A variant that compares the names as they are spelled.
KeyMatchesExact(row, m, s) == row.merchant_name = m /\ row.store_name = s

\* WHERE LOWER(merchant_name)=LOWER(:m) AND LOWER(store_name)=LOWER(:s)
KeyMatches(row, m, s) ==
    Lower(row.merchant_name) = Lower(m) /\ Lower(row.store_name) = Lower(s)

MaxId(tbl) ==
    IF tbl = <<>> THEN 0
    ELSE CHOOSE n \in {tbl[i].id : i \in 1..Len(tbl)} :
             \A i \in 1..Len(tbl) : tbl[i].id <= n

\* A variant of the upsert whose UPDATE also puts from_date back to the
\* sentinel.
UpsertRowResetting(tbl, rrow) ==
    LET merchant == Strip(Str(rrow.Merchant))
        store == Strip(Str(rrow.Store))
        days == parse_days(rrow.WithdrawDays)
        hit(row) == /\ Lower(row.merchant_name) = Lower(merchant)
                    /\ Lower(row.store_name) = Lower(store)
    IN IF merchant = <<>> \/ store = <<>> THEN tbl
       ELSE IF \E i \in 1..Len(tbl) : hit(tbl[i])
       THEN [i \in 1..Len(tbl) |->
               IF hit(tbl[i])
               THEN [tbl[i] EXCEPT !.days = days, !.from_date = Sentinel]
               ELSE tbl[i]]
       ELSE Append(tbl, [id |-> MaxId(tbl) + 1,
                         merchant_name |-> merchant,
                         store_name |-> store,
                         from_date |-> Sentinel,
                         days |-> days,
                         is_default_date |-> 1])

\* A variant of the upsert whose UPDATE also rewrites the names as the
\* report spells them.
UpsertRowRenaming(tbl, rrow) ==
    LET merchant == Strip(Str(rrow.Merchant))
        store == Strip(Str(rrow.Store))
        days == parse_days(rrow.WithdrawDays)
        hit(row) == /\ Lower(row.merchant_name) = Lower(merchant)
                    /\ Lower(row.store_name) = Lower(store)
    IN IF merchant = <<>> \/ store = <<>> THEN tbl
       ELSE IF \E i \in 1..Len(tbl) : hit(tbl[i])
       THEN [i \in 1..Len(tbl) |->
               IF hit(tbl[i])
               THEN [tbl[i] EXCEPT !.days = days,
                                   !.merchant_name = merchant,
                                   !.store_name = store]
               ELSE tbl[i]]
       ELSE Append(tbl, [id |-> MaxId(tbl) + 1,
                         merchant_name |-> merchant,
                         store_name |-> store,
                         from_date |-> Sentinel,
                         days |-> days,
                         is_default_date |-> 1])

\* One iteration of update_settlement_csv's loop on the open transaction:
\* skip a row without merchant or store, else UPDATE the matching rows' day
\* columns or INSERT a row with from_date '2030-01-01'.
UpsertRow(tbl, rrow) ==
    LET merchant == Strip(Str(rrow.Merchant))
        store == Strip(Str(rrow.Store))
        days == parse_days(rrow.WithdrawDays)
    IN IF merchant = <<>> \/ store = <<>> THEN tbl
       ELSE IF \E i \in 1..Len(tbl) : KeyMatches(tbl[i], merchant, store)
       THEN [i \in 1..Len(tbl) |->
               IF KeyMatches(tbl[i], merchant, store)
               THEN [tbl[i] EXCEPT !.days = days]
               ELSE tbl[i]]
       ELSE Append(tbl, [id |-> MaxId(tbl) + 1,
                         merchant_name |-> merchant,
                         store_name |-> store,
                         from_date |-> Sentinel,
                         days |-> days,
                         is_default_date |-> 1])

\* The first transaction-report row of a store (match.iloc[0]), names
\* compared lower-cased and stripped on both sides; 0 when there is none.
FirstTrx(trx, merchant, store) ==
    LET hits == {k \in 1..Len(trx) :
                    /\ trx[k].MerchantName # NaN
                    /\ trx[k].StoreName # NaN
                    /\ Strip(Lower(trx[k].MerchantName)) = Strip(Lower(merchant))
                    /\ Strip(Lower(trx[k].StoreName)) = Strip(Lower(store))}
    IN IF hits = {} THEN 0
       ELSE CHOOSE k \in hits : \A l \in hits : k <= l

\* The UPDATE of activate_default_stores for one default row (merchant,
\* store) whose first transaction is dated d.
ActivateOne(tbl, merchant, store, d) ==
    [i \in 1..Len(tbl) |->
        IF KeyMatches(tbl[i], merchant, store) /\ tbl[i].from_date = Sentinel
        THEN [tbl[i] EXCEPT !.from_date = d, !.is_default_date = 0]
        ELSE tbl[i]]

\* The loop of activate_default_stores over the rows selected at its start
\* (from_date = '2030-01-01' AND is_default_date = 1), from the k-th on.
RECURSIVE ActivateFrom(_, _, _, _)
ActivateFrom(tbl, defaults, k, trx) ==
    IF k > Len(defaults) THEN tbl
    ELSE LET m == defaults[k].merchant_name
             s == defaults[k].store_name
             hit == FirstTrx(trx, m, s)
         IN ActivateFrom(IF hit = 0 THEN tbl
                         ELSE ActivateOne(tbl, m, s, trx[hit].Date),
                         defaults, k + 1, trx)

IsDefaultRow(row) == row.from_date = Sentinel /\ row.is_default_date = 1

activate_default_stores(tbl, trx) ==
    ActivateFrom(tbl, SelectSeq(tbl, IsDefaultRow), 1, trx)

\* ------------------------------------------------------------------- state
VARIABLES
    table,          \* settlement_day as committed: the rows in read order
    now,            \* the clock: half-hours of UTC since 2024-03-04T00:00Z
    impRuns,        \* importer-script runs started so far
    subRuns,        \* submitter runs started so far
    \* the submitter process (main.py)
    spc,            \* where main() stands
    df,             \* the frame read and cleaned (lines 511-512)
    bd_today_name,  \* line 516
    df_today,       \* the rows queued for today (line 521)
    idx,            \* the position of the loop of line 531 in df_today
    cur,            \* the row's locals: record_id, from_date, to_date, clicked
    result,         \* how the try block of the row ended
    pending,        \* an exception is propagating out of the loop
    stats,          \* the counters of lines 473-479
    reported,       \* the final report (lines 601-644) has been written
    session,        \* the browser: none, away, on the form, on it anew
    subEnv,         \* EMAIL, PASSWORD, DATABASE_URL as main.py read them
    attempt,        \* the retry loop main.py is in, and its loop variable
    advanced,       \* history: the <<id, day>> pairs update_from_date wrote
    \* the importer process (day.py)
    ipc,            \* where the script stands
    report,         \* the settlement-day CSV as read at line 91
    ri,             \* the position of the loop of line 95 in report
    conn,           \* the table as the open transaction of line 94 sees it
    tableAtStart,   \* history: the table when update_settlement_csv began
    impEnv          \* EMAIL, PASSWORD, DATABASE_URL as day.py read them

subVars == <<spc, df, bd_today_name, df_today, idx, cur, result, pending,
             stats, reported, session, subEnv, attempt>>

impVars == <<ipc, report, ri, conn, tableAtStart, impEnv>>

vars == <<table, now, impRuns, subRuns, subVars, advanced, impVars>>

\* ------------------------------------------------------------ environment
\* What os.environ.get gives for the three settings a script reads: "" for
\* a variable that is not set or is empty (both are false in the test
\* `not EMAIL`), "set" for one that has a value.
\* EXCLUSIONS is the exclusion list the caller supplies with the run, a set
\* of <<merchant, store>> pairs: none here.
Environs == [EMAIL : {"", "set"}, PASSWORD : {"", "set"},
             DATABASE_URL : {"", "set"}, EXCLUSIONS : {{}}]

\* No process: nothing has been read.
NoEnviron ==
    [EMAIL |-> "", PASSWORD |-> "", DATABASE_URL |-> "", EXCLUSIONS |-> {}]

FullEnviron ==
    [EMAIL |-> "set", PASSWORD |-> "set", DATABASE_URL |-> "set",
     EXCLUSIONS |-> {}]

\* The exclusion lists a caller supplies: merchant A with an empty store
\* (all its stores), and the one pair of merchant b and store S.
ExclusionLists == {{<<<<"A">>, <<>>>>}, {<<<<"b">>, <<"S">>>>}}

\* not EMAIL or not PASSWORD or not DATABASE_URL
ConfigMissing(env) ==
    env.EMAIL = "" \/ env.PASSWORD = "" \/ env.DATABASE_URL = ""

\* ----------------------------------------------------------- initial table
CheckMark == <<"U+2713">>

\* Day columns as other writers of the table leave them: the spellings
\* clean_day_columns is written for.
ProfileTicks ==
    [d \in DayNames |->
        CASE d = "Monday" -> CheckMark
          [] d = "Tuesday" -> <<"x">>
          [] d = "Wednesday" -> <<"1">>
          [] OTHER -> EmptyMark]

ProfileOther ==
    [d \in DayNames |->
        CASE d = "Monday" -> <<"T", "R", "U", "E">>
          [] d = "Tuesday" -> <<" ", "X", ".">>
          [] d = "Wednesday" -> <<"N", "o", "n", "e">>
          [] OTHER -> EmptyMark]

\* Day columns as an earlier import left them.
ProfileImported ==
    [d \in DayNames |->
        IF d \in {"Monday", "Tuesday"} THEN ImporterMark ELSE EmptyMark]

\* 2024-03-02, a from_date two days before the first day of the clock.
InitFromDate == 0 - 2

InitRow(i, m, s, fd, prof) ==
    [id |-> i, merchant_name |-> m, store_name |-> s, from_date |-> fd,
     days |-> prof, is_default_date |-> IF fd = Sentinel THEN 1 ELSE 0]

RowA(fd, prof) == InitRow(1, <<"A">>, <<"s">>, fd, prof)

RowB(fd, prof) == InitRow(2, <<"b">>, <<"S">>, fd, prof)

\* The tables a behaviour starts from: no row; one activated or one not yet
\* activated store, scheduled; two stores, one of them as an earlier import
\* left it; two scheduled stores, one of them not yet activated.
InitTables ==
    {<<>>,
     <<RowA(InitFromDate, ProfileTicks)>>,
     <<RowA(Sentinel, ProfileTicks)>>,
     <<RowA(InitFromDate, ProfileOther), RowB(InitFromDate, ProfileImported)>>,
     <<RowA(InitFromDate, ProfileTicks), RowB(Sentinel, ProfileTicks)>>}

\* Monday 2024-03-04 17:30Z: 23:30 in Dhaka, half an hour before midnight.
StartNow == HalfHoursPerDay - BD_TZ - 1

\* Not in a retry loop.
NoAttempt == [loop |-> "none", n |-> 0]

\* Nothing seen of the page: submit_and_verify_settlement has not looked.
NoSeen ==
    [first |-> [warning_icon |-> FALSE, no_transaction_title |-> FALSE,
                no_transaction_msg |-> FALSE, raises |-> FALSE],
     polls |-> <<>>]

NoCur ==
    [record_id |-> 0, from_date |-> 0, to_date |-> 0, clicked |-> FALSE,
     seen |-> NoSeen]

NoStats == [total_queued |-> 0, confirmed_success |-> 0, no_eligible |-> 0,
            uncertain |-> 0, errors |-> 0]

SubIdle ==
    /\ spc = "idle" /\ df = <<>> /\ bd_today_name = "" /\ df_today = <<>>
    /\ idx = 0 /\ cur = NoCur /\ result = "none" /\ pending = FALSE
    /\ stats = NoStats /\ reported = FALSE /\ session = "none"
    /\ subEnv = NoEnviron /\ attempt = NoAttempt

ImpIdle ==
    /\ ipc = "idle" /\ report = <<>> /\ ri = 0 /\ conn = <<>>
    /\ tableAtStart = <<>> /\ impEnv = NoEnviron

Init ==
    /\ table \in InitTables
    /\ now = StartNow
    /\ impRuns = 0 /\ subRuns = 0
    /\ advanced = {}
    /\ SubIdle
    /\ ImpIdle

\* ------------------------------------------------------------------- clock
\* Time passes: two hours, or a day.  The importer reads the clock only for
\* NOW(), so a run of it is taken to fit between two ticks.  The submitter
\* reads the clock at lines 516, 539 and 209: the clock is let to advance
\* between runs, before a row's window is computed and while the console
\* works on a submission.
TickPoints == {"idle", "row", "record"}

TickSteps == {4, HalfHoursPerDay}

Tick ==
    /\ ipc = "idle" /\ spc \in TickPoints
    /\ \E step \in TickSteps :
          /\ BdDate(now + step) <= MaxDay
          /\ now' = now + step
    /\ UNCHANGED <<table, impRuns, subRuns, subVars, advanced, impVars>>

\* --------------------------------------------------------------- submitter
\* A variant of the start of main.py without the test of line 30.
SubStartUnchecked ==
    /\ spc = "idle" /\ ipc = "idle"
    /\ subRuns < MaxSubRuns /\ (impRuns > 0 => subRuns + impRuns < MaxRuns)
    /\ subRuns' = subRuns + 1
    /\ \E env \in Environs : subEnv' = env
    /\ spc' = "setup"
    /\ UNCHANGED <<table, now, impRuns, df, bd_today_name, df_today, idx, cur,
                   result, pending, stats, reported, advanced,
                   session, attempt, impVars>>

\* main.py starts.  Lines 26-31: the three settings are read from the
\* environment, and when one is missing sys.exit(message) ends the process:
\* the message goes to stderr and the exit status is 1.  Otherwise main()
\* starts (lines 469-487): the counters are zero.  The caller runs one
\* script at a time.
SubStart ==
    /\ spc = "idle" /\ ipc = "idle"
    /\ subRuns < MaxSubRuns /\ (impRuns > 0 => subRuns + impRuns < MaxRuns)
    /\ subRuns' = subRuns + 1
    /\ \E env \in Environs :
          /\ subEnv' = env
          /\ spc' = IF ConfigMissing(env) THEN "sys.exit" ELSE "setup"
    /\ UNCHANGED <<table, now, impRuns, df, bd_today_name, df_today, idx, cur,
                   result, pending, stats, reported, advanced,
                   session, attempt, impVars>>

\* Line 31 has called sys.exit: the process is gone, with status 1.
SubConfigExit ==
    /\ spc = "sys.exit"
    /\ spc' = "idle"
    /\ subEnv' = NoEnviron
    /\ UNCHANGED <<table, now, impRuns, subRuns, df, bd_today_name, df_today,
                   idx, cur, result, pending, stats, reported, advanced,
                   session, attempt, impVars>>

\* Lines 489-508: init_webdriver (three tries), test_connection and
\* perform_login.  Any of them may raise, which ends the run in the handler
\* of line 646.  perform_login returns once the creation form is present
\* (lines 245-250); when init_webdriver fails there is no browser.
SubSetup ==
    /\ spc = "setup"
    /\ \/ /\ spc' = "read"
          /\ session' = "form"
       \/ /\ spc' = "abort"
          /\ session' \in {"none", "away"}
    /\ UNCHANGED <<table, now, impRuns, subRuns, df, bd_today_name, df_today,
                   idx, cur, result, pending, stats, reported, advanced,
                   subEnv, attempt, impVars>>

\* Lines 511-512: read_data_from_db() and clean_day_columns(df).
SubRead ==
    /\ spc = "read"
    /\ \E ok \in BOOLEAN :
          IF ok THEN /\ df' = clean_day_columns(table)
                     /\ spc' = "filter"
                ELSE /\ df' = df
                     /\ spc' = "abort"
    /\ UNCHANGED <<table, now, impRuns, subRuns, bd_today_name, df_today, idx,
                   cur, result, pending, stats, reported, advanced,
                   session, subEnv, attempt, impVars>>

\* Lines 515-528: today's weekday name, the due rows, total_queued; an
\* empty queue returns from main() at line 526.
SubFilter ==
    /\ spc = "filter"
    /\ bd_today_name' = get_bd_today_name(now)
    /\ df_today' = FilterDue(df, get_bd_today_name(now))
    /\ df' = <<>>
    /\ stats' = [stats EXCEPT !.total_queued = Len(df_today')]
    /\ IF df_today' = <<>>
       THEN /\ spc' = "exit" /\ idx' = idx
       ELSE /\ spc' = "row" /\ idx' = 1
    /\ UNCHANGED <<table, now, impRuns, subRuns, cur, result, pending,
                   reported, advanced, session, subEnv, attempt, impVars>>

\* Lines 532-543: the row's window [from_date, yesterday] and its id.
\* driver.current_url is read outside the try block of line 545.
SubRowBegin ==
    /\ spc = "row"
    /\ \E urlok \in BOOLEAN :
          IF urlok
          THEN /\ cur' = [record_id |-> df_today[idx].id,
                          from_date |-> df_today[idx].from_date,
                          to_date |-> get_bd_yesterday(now),
                          clicked |-> FALSE, seen |-> NoSeen]
               /\ spc' = "submit"
          ELSE /\ cur' = cur
               /\ spc' = "abort"
    /\ UNCHANGED <<table, now, impRuns, subRuns, df, bd_today_name, df_today,
                   idx, result, pending, stats, reported, advanced,
                   session, subEnv, attempt, impVars>>

\* What the automation of lines 547-570 may come to.
Results == {"success", "no_eligible", "uncertain"}

Outcomes == {"merchant_not_found", "store_not_found", "exception"} \cup Results

\* Lines 547-570: select_merchant, select_store_by_name, enter_dates and
\* submit_and_verify_settlement, whose outcome the console decides.  An
\* exception may come before or after the click on create_settlement.
SubRowSubmit ==
    /\ spc = "submit"
    /\ \E o \in Outcomes, c \in BOOLEAN :
          /\ o \in Results => c
          /\ o \in {"merchant_not_found", "store_not_found"} => ~c
          /\ result' = o
          /\ cur' = [cur EXCEPT !.clicked = c]
    /\ spc' = "record"
    /\ session' = "away"
    /\ UNCHANGED <<table, now, impRuns, subRuns, df, bd_today_name, df_today,
                   idx, pending, stats, reported, advanced, subEnv,
                   attempt, impVars>>

Bump(st, field) == [st EXCEPT ![field] = @ + 1]

\* The handler of lines 586-590 after an exception in the try block: count
\* an error, then capture_screenshot, which may raise in its turn.
ExceptHandler(st, shot) ==
    /\ stats' = Bump(st, "errors")
    /\ pending' = ~shot

\* Lines 548-551: select_merchant returned False.
RecordMerchantNotFound ==
    /\ result = "merchant_not_found"
    /\ stats' = Bump(stats, "errors")
    /\ UNCHANGED <<table, pending, advanced>>

\* Lines 559-564: select_store_by_name returned False.  The screenshot of
\* line 563 is inside the try block: if it raises, line 586 handles it.
RecordStoreNotFound ==
    /\ result = "store_not_found"
    /\ \E shot1 \in BOOLEAN, shot2 \in BOOLEAN :
          IF shot1 THEN /\ stats' = Bump(stats, "errors")
                        /\ pending' = pending
                   ELSE ExceptHandler(Bump(stats, "errors"), shot2)
    /\ UNCHANGED <<table, advanced>>

\* Lines 586-590 for an exception raised by lines 547-570.
RecordException ==
    /\ result = "exception"
    /\ \E shot \in BOOLEAN : ExceptHandler(stats, shot)
    /\ UNCHANGED <<table, advanced>>

\* Lines 572-576: update_from_date, then the count.  If the UPDATE raises,
\* nothing is written and line 586 handles it.
RecordSuccess ==
    /\ result = "success"
    /\ \E dbok \in BOOLEAN, shot \in BOOLEAN :
          IF dbok
          THEN /\ table' = update_from_date(table, cur.record_id, now)
               /\ advanced' = advanced \cup {<<cur.record_id, get_bd_today(now)>>}
               /\ stats' = Bump(stats, "confirmed_success")
               /\ pending' = pending
          ELSE /\ ExceptHandler(stats, shot)
               /\ UNCHANGED <<table, advanced>>

\* A variant of lines 577-584 that advances from_date all the same.
RecordOtherAdvancing ==
    /\ result \in {"no_eligible", "uncertain"}
    /\ stats' = Bump(stats, result)
    /\ table' = update_from_date(table, cur.record_id, now)
    /\ UNCHANGED <<pending, advanced>>

\* Lines 577-584.
RecordOther ==
    /\ result \in {"no_eligible", "uncertain"}
    /\ stats' = Bump(stats, result)
    /\ UNCHANGED <<table, pending, advanced>>

\* Lines 548-590: what main() does with the outcome of the row.
SubRowRecord ==
    /\ spc = "record"
    /\ \/ RecordMerchantNotFound
       \/ RecordStoreNotFound
       \/ RecordException
       \/ RecordSuccess
       \/ RecordOther
    /\ spc' = "finally"
    /\ UNCHANGED <<now, impRuns, subRuns, df, bd_today_name, df_today, idx,
                   cur, result, reported, session, subEnv, attempt, impVars>>

\* A variant of lines 592-599 without lines 594-599: after a failed
\* navigation the loop goes on with the browser where it is.
SubRowFinallyNoRelogin ==
    /\ spc = "finally"
    /\ \E navok \in BOOLEAN :
          /\ session' = IF navok THEN "form" ELSE "away"
          /\ IF pending THEN /\ spc' = "abort" /\ idx' = idx
             ELSE IF idx < Len(df_today)
             THEN /\ spc' = "row" /\ idx' = idx + 1
             ELSE /\ spc' = "report" /\ idx' = idx
    /\ cur' = NoCur
    /\ result' = "none"
    /\ UNCHANGED <<table, now, impRuns, subRuns, df, bd_today_name, df_today,
                   pending, stats, reported, advanced, subEnv,
                   attempt, impVars>>

\* Lines 592-599: back to the creation form; if navigation fails, a new
\* browser and a new login, which may raise.  An exception leaving the
\* finally block ends the loop; otherwise the loop goes on.
SubRowFinally ==
    /\ spc = "finally"
    /\ \E navok \in BOOLEAN, relogin \in BOOLEAN :
          LET raised == pending \/ (~navok /\ ~relogin)
          IN /\ pending' = raised
             /\ session' = IF navok THEN "form"
                           ELSE IF relogin THEN "form anew" ELSE "away"
             /\ IF raised THEN /\ spc' = "abort" /\ idx' = idx
                ELSE IF idx < Len(df_today)
                THEN /\ spc' = "row" /\ idx' = idx + 1
                ELSE /\ spc' = "report" /\ idx' = idx
    /\ cur' = NoCur
    /\ result' = "none"
    /\ UNCHANGED <<table, now, impRuns, subRuns, df, bd_today_name, df_today,
                   stats, reported, advanced, subEnv, attempt, impVars>>

\* Lines 601-644: the final report.
SubReport ==
    /\ spc = "report"
    /\ reported' = TRUE
    /\ spc' = "exit"
    /\ UNCHANGED <<table, now, impRuns, subRuns, df, bd_today_name, df_today,
                   idx, cur, result, pending, stats, advanced,
                   session, subEnv, attempt, impVars>>

\* Lines 646-649: the handler of main()'s outer try logs the exception.
SubAbort ==
    /\ spc = "abort"
    /\ spc' = "exit"
    /\ UNCHANGED <<table, now, impRuns, subRuns, df, bd_today_name, df_today,
                   idx, cur, result, pending, stats, reported, advanced,
                   session, subEnv, attempt, impVars>>

\* Lines 650-653: the browser is closed and the process ends.
SubExit ==
    /\ spc = "exit"
    /\ spc' = "idle" /\ df' = <<>> /\ bd_today_name' = "" /\ df_today' = <<>>
    /\ idx' = 0 /\ cur' = NoCur /\ result' = "none" /\ pending' = FALSE
    /\ stats' = NoStats /\ reported' = FALSE /\ session' = "none"
    /\ subEnv' = NoEnviron /\ attempt' = NoAttempt
    /\ UNCHANGED <<table, now, impRuns, subRuns, advanced, impVars>>

\* ---------------------------------------------------------------- importer
\* The rows a settlement-day report is made of: Merchant, Store and
\* Withdraw Days cells.  The first two name the store of RowA in other
\* letter case; then a row with missing cells and a row with a blank
\* merchant.
ReportRowPool ==
    {[Merchant |-> <<"a">>, Store |-> <<"S">>,
      WithdrawDays |-> <<"Monday", ",", " ", "Tuesday">>],
     [Merchant |-> <<"A">>, Store |-> <<"s", " ">>,
      WithdrawDays |-> <<"Tuesday", " ", "(", "x", ",", "Monday", ")", ",",
                         "friday">>],
     [Merchant |-> NaN, Store |-> <<"s">>, WithdrawDays |-> NaN],
     [Merchant |-> <<" ">>, Store |-> <<"s">>,
      WithdrawDays |-> <<"Monday">>]}

SeqsUpTo(S, n) == UNION {[1..k -> S] : k \in 0..n}

Reports == SeqsUpTo(ReportRowPool, MaxReportLen)

\* The transaction report covers yesterday by the server's own clock
\* (line 34: datetime.now() without a zone), taken to be UTC.
TrxDates(t) == {(t \div HalfHoursPerDay) - 1}

\* Transaction-report rows: stores of the table in other letter case and
\* with blanks around, dated yesterday or the day before, and a row with a
\* missing merchant.
TrxRowPool(t) ==
    {[MerchantName |-> <<"a", " ">>, StoreName |-> <<"S">>, Date |-> d - k] :
        d \in TrxDates(t), k \in {0, 1}}
    \cup {[MerchantName |-> m, StoreName |-> <<"S">>, Date |-> d] :
        m \in {<<"B">>, NaN}, d \in TrxDates(t)}

\* The longest transaction report.
MaxTrxLen == 2

TrxReports(t) == SeqsUpTo(TrxRowPool(t), MaxTrxLen)

\* day.py starts.  Lines 20-25: the three settings are read from the
\* environment, and when one is missing the module raises Exception(message),
\* which nothing catches: the traceback and the message go to stderr and the
\* exit status is 1.  The caller runs one script at a time.
ImpStart ==
    /\ ipc = "idle" /\ spc = "idle"
    /\ impRuns < MaxImpRuns /\ (subRuns > 0 => subRuns + impRuns < MaxRuns)
    /\ impRuns' = impRuns + 1
    /\ \E env \in Environs :
          /\ impEnv' = env
          /\ ipc' = IF ConfigMissing(env) THEN "raise" ELSE "download"
    /\ UNCHANGED <<table, now, subRuns, subVars, advanced, report, ri, conn,
                   tableAtStart>>

\* Line 25 has raised: the process is gone, with status 1.
ImpConfigExit ==
    /\ ipc = "raise"
    /\ ipc' = "idle"
    /\ impEnv' = NoEnviron
    /\ UNCHANGED <<table, now, impRuns, subRuns, subVars, advanced, report, ri,
                   conn, tableAtStart>>

\* Lines 200-246: the browser downloads the two CSV files; an exception
\* ends the script.  Line 91 reads the settlement-day file.
ImpDownload ==
    /\ ipc = "download"
    /\ \/ /\ \E rep \in Reports : report' = rep
          /\ ipc' = "clear"
       \/ /\ report' = report
          /\ ipc' = "exit"
    /\ UNCHANGED <<table, now, impRuns, subRuns,
                   impEnv, subVars, advanced, ri, conn,
                   tableAtStart>>

\* A variant of lines 92-94 that clears inside the transaction of the
\* upserts.
ImpClearInTransaction ==
    /\ ipc = "clear"
    /\ tableAtStart' = table
    /\ conn' = clear_day_columns(table)
    /\ ri' = 1
    /\ ipc' = "upsert"
    /\ UNCHANGED <<table, now, impRuns, subRuns,
                   impEnv, subVars, advanced, report>>

\* Line 92: clear_day_columns() in a transaction of its own, and line 94
\* opens the transaction of the upserts.
ImpClear ==
    /\ ipc = "clear"
    /\ \/ /\ tableAtStart' = table
          /\ table' = clear_day_columns(table)
          /\ conn' = table'
          /\ ri' = 1
          /\ ipc' = "upsert"
       \/ /\ ipc' = "exit"
          /\ UNCHANGED <<table, conn, ri, tableAtStart>>
    /\ UNCHANGED <<now, impRuns, subRuns, impEnv, subVars, advanced, report>>

\* A variant of lines 95-154 that commits each report row as it goes.
ImpUpsertRowAutocommit ==
    /\ ipc = "upsert" /\ ri <= Len(report)
    /\ \/ /\ conn' = UpsertRow(conn, report[ri])
          /\ table' = conn'
          /\ ri' = ri + 1
          /\ ipc' = ipc
       \/ /\ conn' = <<>>
          /\ table' = table
          /\ ri' = ri
          /\ ipc' = "exit"
    /\ UNCHANGED <<now, impRuns, subRuns, impEnv, subVars, advanced, report,
                   tableAtStart>>

\* Lines 95-154: one report row, inside the transaction.  A statement that
\* raises leaves the with block: the transaction is rolled back and the
\* script ends.
ImpUpsertRow ==
    /\ ipc = "upsert" /\ ri <= Len(report)
    /\ \/ /\ conn' = UpsertRow(conn, report[ri])
          /\ ri' = ri + 1
          /\ ipc' = ipc
       \/ /\ conn' = <<>>
          /\ ri' = ri
          /\ ipc' = "exit"
    /\ UNCHANGED <<table, now, impRuns, subRuns,
                   impEnv, subVars, advanced, report,
                   tableAtStart>>

\* The end of the with block of line 94: the commit, which may fail.
ImpCommit ==
    /\ ipc = "upsert" /\ ri > Len(report)
    /\ \/ /\ table' = conn
          /\ ipc' = "activate"
       \/ /\ table' = table
          /\ ipc' = "exit"
    /\ conn' = <<>>
    /\ UNCHANGED <<now, impRuns, subRuns,
                   impEnv, subVars, advanced, report, ri,
                   tableAtStart>>

\* Line 249: activate_default_stores(trx_file), one transaction.
ImpActivate ==
    /\ ipc = "activate"
    /\ \/ \E trx \in TrxReports(now) :
             table' = activate_default_stores(table, trx)
       \/ table' = table
    /\ ipc' = "exit"
    /\ UNCHANGED <<now, impRuns, subRuns,
                   impEnv, subVars, advanced, report, ri, conn,
                   tableAtStart>>

\* The script ends.
ImpExit ==
    /\ ipc = "exit"
    /\ ipc' = "idle" /\ report' = <<>> /\ ri' = 0 /\ conn' = <<>>
    /\ tableAtStart' = <<>> /\ impEnv' = NoEnviron
    /\ UNCHANGED <<table, now, impRuns, subRuns, subVars, advanced>>

\* ----------------------------------------------------------- specification
SubNext ==
    \/ SubStart \/ SubSetup \/ SubRead \/ SubFilter
    \/ SubRowBegin \/ SubRowSubmit \/ SubRowRecord \/ SubRowFinally
    \/ SubReport \/ SubAbort \/ SubExit \/ SubConfigExit

ImpNext ==
    \/ ImpStart \/ ImpDownload \/ ImpClear \/ ImpUpsertRow \/ ImpCommit
    \/ ImpActivate \/ ImpExit \/ ImpConfigExit

\* Both scripts, run one at a time in any order.
Next == Tick \/ SubNext \/ ImpNext

Spec == Init /\ [][Next]_vars

\* Runs of the submitter alone, on any of the initial tables.
SpecSub == Init /\ [][Tick \/ SubNext]_vars

\* Runs of the importer script alone.
SpecImp == Init /\ [][ImpNext]_vars

\* ------------------------------------------------------------ a crash
\* The submitter process dies (a kill, a power cut) wherever main() stands:
\* no handler runs and nothing more is written.  Its locals are left as
\* they stood, for the post-mortem; no later run starts.
SubCrash ==
    /\ spc \notin {"idle", "crashed"}
    /\ spc' = "crashed"
    /\ UNCHANGED <<table, now, impRuns, subRuns, df, bd_today_name, df_today,
                   idx, cur, result, pending, stats, reported, advanced,
                   session, subEnv, attempt, impVars>>

\* Runs of the submitter alone, any of which may crash.
SpecCrash == Init /\ [][Tick \/ SubNext \/ SubCrash]_vars

\* ------------------------------------------------------ concurrent runs
\* The caller starts main.py while day.py is running.
SubStartDuring ==
    /\ spc = "idle" /\ ipc # "idle"
    /\ subRuns < MaxSubRuns /\ subRuns + impRuns < MaxRuns
    /\ subRuns' = subRuns + 1
    /\ \E env \in Environs :
          /\ subEnv' = env
          /\ spc' = IF ConfigMissing(env) THEN "sys.exit" ELSE "setup"
    /\ UNCHANGED <<table, now, impRuns, df, bd_today_name, df_today, idx, cur,
                   result, pending, stats, reported, advanced,
                   session, attempt, impVars>>

\* The two scripts run by a caller that does not serialize them: the steps
\* of the submitter interleave with those of the importer.
SpecConc == Init /\ [][ImpNext \/ SubNext \/ SubStartDuring]_vars

\* ------------------------------------------- a run with an exclusion list
\* The caller starts main.py and supplies an exclusion list.  main.py has no
\* parameter for one and opens no such file (lines 26-33 read the three
\* settings and nothing else), so the list stays with the caller.
SubStartExcluding ==
    /\ spc = "idle" /\ ipc = "idle"
    /\ subRuns < MaxSubRuns /\ (impRuns > 0 => subRuns + impRuns < MaxRuns)
    /\ subRuns' = subRuns + 1
    /\ \E env \in Environs, ex \in ExclusionLists :
          /\ subEnv' = [env EXCEPT !.EXCLUSIONS = ex]
          /\ spc' = IF ConfigMissing(env) THEN "sys.exit" ELSE "setup"
    /\ UNCHANGED <<table, now, impRuns, df, bd_today_name, df_today, idx, cur,
                   result, pending, stats, reported, advanced,
                   session, attempt, impVars>>

SpecExcl == Init /\ [][SubNext \/ SubStartExcluding]_vars

\* ------------------------------------------- what the page shows a submit
MaxPolls == 2

\* The first check of lines 372-382, five seconds after the click: what the
\* three find_elements calls found, or that one of them raised.
FirstChecks ==
    [warning_icon : BOOLEAN, no_transaction_title : BOOLEAN,
     no_transaction_msg : BOOLEAN, raises : BOOLEAN]

\* One round of the loop of lines 412-434: current_url is the original URL
\* ("same"), another URL with "create" in it ("create"), a URL without
\* ("away"), or the read raises; the search for the success icon finds it,
\* finds nothing, or raises.
Polls ==
    [url : {"same", "create", "away", "raise"},
     success_icon : {"found", "none", "raise"}]

\* The rounds the 60 seconds of line 409 leave room for: at least one.
Seens ==
    [first : FirstChecks,
     polls : SeqsUpTo(Polls, MaxPolls) \ {<<>>}]

\* Line 382: warning_icon and (no_transaction_title or no_transaction_msg),
\* inside the try of line 372, whose handler of line 403 goes on to step 2.
NoTransactions(first) ==
    /\ ~first.raises
    /\ first.warning_icon
    /\ first.no_transaction_title \/ first.no_transaction_msg

\* Lines 412-438 from round k on.  The read of current_url is outside any
\* try; the search for the icon is inside one that passes.
RECURSIVE WaitForRedirect(_, _)
WaitForRedirect(polls, k) ==
    IF k > Len(polls) THEN "uncertain"
    ELSE IF polls[k].url = "raise" THEN "exception"
    ELSE IF polls[k].url = "away" THEN "success"
    ELSE IF polls[k].success_icon = "found" THEN "success"
    ELSE WaitForRedirect(polls, k + 1)

\* A variant that waits for the redirect first and looks for the warning
\* only when the wait gave nothing.
VerifyRedirectFirst(obs) ==
    IF WaitForRedirect(obs.polls, 1) # "uncertain"
    THEN WaitForRedirect(obs.polls, 1)
    ELSE IF NoTransactions(obs.first) THEN "no_eligible" ELSE "uncertain"

\* Lines 359-438 after the click of line 365.
submit_and_verify_settlement(obs) ==
    IF NoTransactions(obs.first) THEN "no_eligible"
    ELSE WaitForRedirect(obs.polls, 1)

\* Lines 547-570 with what the page showed: select_merchant,
\* select_store_by_name or enter_dates fail or raise, or the button of
\* line 364 never becomes clickable, before any click; or the button is
\* clicked and submit_and_verify_settlement looks at the page.
SubRowSubmitSeen ==
    /\ spc = "submit"
    /\ \/ \E o \in {"merchant_not_found", "store_not_found", "exception"} :
             /\ result' = o
             /\ cur' = [cur EXCEPT !.clicked = FALSE]
       \/ \E obs \in Seens :
             /\ result' = submit_and_verify_settlement(obs)
             /\ cur' = [cur EXCEPT !.clicked = TRUE, !.seen = obs]
    /\ spc' = "record"
    /\ session' = "away"
    /\ UNCHANGED <<table, now, impRuns, subRuns, df, bd_today_name, df_today,
                   idx, pending, stats, reported, advanced, subEnv,
                   attempt, impVars>>

\* One activated store, scheduled for Monday, on Monday 2024-03-04.
InitVerify ==
    /\ table = <<RowA(InitFromDate, ProfileTicks)>>
    /\ now = StartNow
    /\ impRuns = 0 /\ subRuns = 0
    /\ advanced = {}
    /\ SubIdle
    /\ ImpIdle

VerifyNext ==
    \/ SubStart \/ SubSetup \/ SubRead \/ SubFilter
    \/ SubRowBegin \/ SubRowSubmitSeen \/ SubRowRecord \/ SubRowFinally
    \/ SubReport \/ SubAbort \/ SubExit \/ SubConfigExit

SpecVerify == InitVerify /\ [][VerifyNext]_vars

\* Both scripts, run one at a time in any order on that table, the clock
\* standing still.
SpecStart == InitVerify /\ [][SubNext \/ ImpNext]_vars

\* ------------------------------------------------ the retry loops, stepwise
\* max_retries of perform_login and of navigate_back_to_settlement_page.
max_retries == 3

max_init_retries == 3

\* Lines 489-505, one round of the loop around init_webdriver: a driver, and
\* then test_connection, which ends the run when it fails; or no driver,
\* and after the last round the exception goes to the handler of line 646.
SubInitAttempt ==
    /\ spc = "setup" /\ attempt.loop \in {"none", "init"}
    /\ \E ok \in BOOLEAN, connected \in BOOLEAN :
          IF ok
          THEN /\ session' = "away"
               /\ IF connected
                  THEN /\ attempt' = [loop |-> "login", n |-> 0]
                       /\ spc' = spc
                  ELSE /\ attempt' = [loop |-> "init", n |-> attempt.n]
                       /\ spc' = "abort"
          ELSE /\ session' = "none"
               /\ IF attempt.n = max_init_retries - 1
                  THEN /\ attempt' = [loop |-> "init", n |-> attempt.n]
                       /\ spc' = "abort"
                  ELSE /\ attempt' = [loop |-> "init", n |-> attempt.n + 1]
                       /\ spc' = spc
    /\ UNCHANGED <<table, now, impRuns, subRuns, df, bd_today_name, df_today,
                   idx, cur, result, pending, stats, reported, advanced,
                   subEnv, impVars>>

\* A variant of perform_login that starts over after its last round
\* instead of raising.
SubLoginAttemptStartingOver ==
    /\ spc = "setup" /\ attempt.loop = "login"
    /\ \E ok \in BOOLEAN :
          IF ok
          THEN /\ session' = "form"
               /\ attempt' = NoAttempt
               /\ spc' = "read"
          ELSE /\ session' = "away"
               /\ attempt' = [attempt EXCEPT !.n = (@ + 1) % max_retries]
               /\ spc' = spc
    /\ UNCHANGED <<table, now, impRuns, subRuns, df, bd_today_name, df_today,
                   idx, cur, result, pending, stats, reported, advanced,
                   subEnv, impVars>>

\* Lines 225-262 at line 508, one round of perform_login: the form is
\* there and the function returns, or the round fails; the last failure is
\* raised again (line 262).
SubLoginAttempt ==
    /\ spc = "setup" /\ attempt.loop = "login"
    /\ \E ok \in BOOLEAN :
          IF ok
          THEN /\ session' = "form"
               /\ attempt' = NoAttempt
               /\ spc' = "read"
          ELSE /\ session' = "away"
               /\ IF attempt.n < max_retries - 1
                  THEN /\ attempt' = [attempt EXCEPT !.n = @ + 1]
                       /\ spc' = spc
                  ELSE /\ attempt' = attempt
                       /\ spc' = "abort"
    /\ UNCHANGED <<table, now, impRuns, subRuns, df, bd_today_name, df_today,
                   idx, cur, result, pending, stats, reported, advanced,
                   subEnv, impVars>>

\* Lines 547-404: the steps before the click fail or raise; or the button
\* is clicked and the first check finds the warning, or finds none and the
\* wait of line 412 begins.
SubClickAndCheck ==
    /\ spc = "submit" /\ attempt.loop = "none"
    /\ \/ \E o \in {"merchant_not_found", "store_not_found", "exception"} :
             /\ result' = o
             /\ cur' = [cur EXCEPT !.clicked = FALSE]
             /\ spc' = "record"
             /\ attempt' = attempt
       \/ \E first \in FirstChecks :
             /\ cur' = [cur EXCEPT !.clicked = TRUE]
             /\ IF NoTransactions(first)
                THEN /\ result' = "no_eligible"
                     /\ spc' = "record"
                     /\ attempt' = attempt
                ELSE /\ result' = result
                     /\ spc' = spc
                     /\ attempt' = [loop |-> "wait", n |-> 0]
    /\ session' = "away"
    /\ UNCHANGED <<table, now, impRuns, subRuns, df, bd_today_name, df_today,
                   idx, pending, stats, reported, advanced, subEnv, impVars>>

\* Lines 412-438, one round of the wait: a result, or nothing yet; then the
\* 60 seconds are over, at the latest after MaxPolls rounds, or another
\* round follows.
SubWaitPoll ==
    /\ spc = "submit" /\ attempt.loop = "wait"
    /\ \E poll \in Polls, timeup \in BOOLEAN :
          IF WaitForRedirect(<<poll>>, 1) # "uncertain"
          THEN /\ result' = WaitForRedirect(<<poll>>, 1)
               /\ spc' = "record"
               /\ attempt' = NoAttempt
          ELSE IF timeup \/ attempt.n + 1 >= MaxPolls
          THEN /\ result' = "uncertain"
               /\ spc' = "record"
               /\ attempt' = NoAttempt
          ELSE /\ result' = result
               /\ spc' = spc
               /\ attempt' = [attempt EXCEPT !.n = @ + 1]
    /\ UNCHANGED <<table, now, impRuns, subRuns, df, bd_today_name, df_today,
                   idx, cur, pending, stats, reported, advanced, session,
                   subEnv, impVars>>

\* The finally block of lines 592-599 is done: an exception the handler of
\* line 590 left pending goes on to line 646, otherwise the loop goes on.
FinallyDone ==
    /\ pending' = pending
    /\ attempt' = NoAttempt
    /\ IF pending THEN /\ spc' = "abort" /\ idx' = idx
       ELSE IF idx < Len(df_today)
       THEN /\ spc' = "row" /\ idx' = idx + 1
       ELSE /\ spc' = "report" /\ idx' = idx

\* An exception leaves the finally block.
FinallyRaises ==
    /\ pending' = TRUE
    /\ attempt' = attempt
    /\ spc' = "abort" /\ idx' = idx

\* Lines 443-463 at line 594, one round of navigate_back_to_settlement_page:
\* the form is there; or the round fails, and after the last one the
\* function returns False and lines 596-598 make a new browser, which may
\* raise.
SubNavAttempt ==
    /\ spc = "finally" /\ attempt.loop \in {"none", "navigate"}
    /\ \E ok \in BOOLEAN, driver \in BOOLEAN :
          IF ok
          THEN /\ session' = "form"
               /\ FinallyDone
          ELSE IF attempt.n < max_retries - 1
          THEN /\ session' = "away"
               /\ attempt' = [loop |-> "navigate", n |-> attempt.n + 1]
               /\ UNCHANGED <<spc, idx, pending>>
          ELSE IF driver
          THEN /\ session' = "away"
               /\ attempt' = [loop |-> "relogin", n |-> 0]
               /\ UNCHANGED <<spc, idx, pending>>
          ELSE /\ session' = "none"
               /\ FinallyRaises
    /\ cur' = IF spc' = "finally" THEN cur ELSE NoCur
    /\ result' = IF spc' = "finally" THEN result ELSE "none"
    /\ UNCHANGED <<table, now, impRuns, subRuns, df, bd_today_name, df_today,
                   stats, reported, advanced, subEnv, impVars>>

\* Line 599, one round of perform_login in the new browser.
SubReloginAttempt ==
    /\ spc = "finally" /\ attempt.loop = "relogin"
    /\ \E ok \in BOOLEAN :
          IF ok
          THEN /\ session' = "form anew"
               /\ FinallyDone
          ELSE /\ session' = "away"
               /\ IF attempt.n < max_retries - 1
                  THEN /\ attempt' = [attempt EXCEPT !.n = @ + 1]
                       /\ UNCHANGED <<spc, idx, pending>>
                  ELSE FinallyRaises
    /\ cur' = IF spc' = "finally" THEN cur ELSE NoCur
    /\ result' = IF spc' = "finally" THEN result ELSE "none"
    /\ UNCHANGED <<table, now, impRuns, subRuns, df, bd_today_name, df_today,
                   stats, reported, advanced, subEnv, impVars>>

\* The steps of a run of main.py once the caller has started it.
TermRun ==
    \/ SubInitAttempt \/ SubLoginAttempt \/ SubRead \/ SubFilter
    \/ SubRowBegin \/ SubClickAndCheck \/ SubWaitPoll \/ SubRowRecord
    \/ SubNavAttempt \/ SubReloginAttempt
    \/ SubReport \/ SubAbort \/ SubExit \/ SubConfigExit

TermNext == SubStart \/ TermRun

\* Runs of the submitter with their retry loops round by round.  A process
\* that has been started goes on running: the scheduler does not stop it.
SpecTerm == Init /\ [][TermNext]_vars /\ WF_vars(TermRun)

\* ------------------------------------------------- day-column markers
\* TICK_INDICATORS of main.py, line 38 (its last member, the boolean True,
\* is no text): the markers the module lists and never uses.
TICK_INDICATORS ==
    {<<"x">>, <<"X">>, <<"U+2714">>, <<"U+2713">>, <<"1">>,
     <<"T", "R", "U", "E">>, <<"T", "r", "u", "e">>, <<"t", "r", "u", "e">>}

\* Stored day-column values: the listed markers, other spellings found in
\* such a column, and every text of up to MaxMarkLen characters over a few
\* letters, a mark and punctuation.
MarkAlphabet == {"n", "a", ".", "x", "U+2713"}

MarkValues ==
    TICK_INDICATORS
    \cup {ImporterMark, <<" ", "X", ".">>, <<"x", " ">>, <<"0">>,
          <<"N", "o", "n", "e">>, <<" ">>, <<"X", "x">>}
    \cup UNION {[1..k -> MarkAlphabet] : k \in 0..MaxMarkLen}

\* An activated store whose Monday column holds a stored value.
MarkRow(v) ==
    InitRow(1, <<"A">>, <<"s">>, InitFromDate,
            [d \in DayNames |-> IF d = "Monday" THEN v ELSE EmptyMark])

\* The submitter on Monday 2024-03-04, on a table of one such row.
InitMark ==
    /\ \E v \in MarkValues : table = <<MarkRow(v)>>
    /\ now = StartNow
    /\ impRuns = 0 /\ subRuns = 0
    /\ advanced = {}
    /\ SubIdle
    /\ ImpIdle

SpecMark == InitMark /\ [][SubNext]_vars

\* ------------------------------------------- withdraw-days descriptors
\* The lexemes of the generated descriptors: weekday names as the console
\* spells them and in lower case, and the separators parse_days looks at.
DescLexemes == {"Monday", "Wednesday", "friday", ",", " ", "(", ")"}

\* "Monday, Wednesday (excluding holidays), Friday"
DescExample ==
    <<"Monday", ",", " ", "Wednesday", " ", "(", "excluding", " ",
      "holidays", ")", ",", " ", "Friday">>

Descriptors ==
    {DescExample} \cup UNION {[1..k -> DescLexemes] : k \in 0..MaxDescLen}

\* update_settlement_csv on a report of one row, for a store the table
\* does not hold yet: line 91 has read the file.
InitDays ==
    /\ table = <<>>
    /\ now = StartNow
    /\ impRuns = 1 /\ subRuns = 0
    /\ advanced = {}
    /\ SubIdle
    /\ ipc = "clear"
    /\ \E desc \in Descriptors :
          report = <<[Merchant |-> <<"a">>, Store |-> <<"S">>,
                      WithdrawDays |-> desc]>>
    /\ ri = 0 /\ conn = <<>> /\ tableAtStart = <<>>
    /\ impEnv = FullEnviron

DaysNext == ImpClear \/ ImpUpsertRow \/ ImpCommit \/ ImpActivate \/ ImpExit

SpecDays == InitDays /\ [][DaysNext]_vars

\* ================================================================== claims
\* The row of the table with a given id.
RowOf(tbl, id) == tbl[CHOOSE i \in 1..Len(tbl) : tbl[i].id = id]

\* A step of the submitter that records the outcome of the current row.
RecordStep == spc = "record" /\ spc' = "finally"

\* C1: a settlement_day row whose from_date is the "not yet activated"
\* sentinel 2030-01-01 is never among the rows main() queues for today,
\* whatever its day columns hold.
C1_SentinelNeverQueued ==
    \A i \in 1..Len(df_today) : df_today[i].from_date # Sentinel

\* C2: across submitter runs a row's from_date never decreases, and it
\* changes only in the step that records a success for that row.
C2_FromDateMonotonic ==
    [][\A i \in 1..Len(table) :
          /\ table'[i].from_date >= table[i].from_date
          /\ table'[i].from_date # table[i].from_date
                => /\ RecordStep
                   /\ result = "success"
                   /\ cur.record_id = table[i].id]_vars

\* C3: a run on a calendar day on which an earlier successful run already
\* advanced a row's from_date to that day does not click "create
\* settlement" for that row again.
C3_NoResubmitSameDay ==
    (spc = "record" /\ cur.clicked)
        => <<cur.record_id, cur.to_date + 1>> \notin advanced

\* C4: when the outcome of a row is success, either the write of
\* from_date = today for the row's id commits and only then the row counts
\* as a success, or the write fails, and then the row counts as an error and
\* not as a success, from_date is unchanged and the run goes on to the next
\* row (no exception leaves the row's handler).
C4_SuccessWriteThenCount ==
    [][(RecordStep /\ result = "success") =>
          \/ /\ RowOf(table', cur.record_id).from_date = get_bd_today(now)
             /\ \A i \in 1..Len(table) :
                   table[i].id # cur.record_id => table'[i] = table[i]
             /\ stats' = [stats EXCEPT !.confirmed_success = @ + 1]
             /\ pending' = pending
          \/ /\ table' = table
             /\ stats' = [stats EXCEPT !.errors = @ + 1]
             /\ ~pending']_vars

\* The counter an outcome of the try block is counted under.
CategoryOf(r) == IF r \in Results THEN
                    (IF r = "success" THEN "confirmed_success" ELSE r)
                 ELSE "errors"

\* C5: recording a no-eligible, uncertain or error outcome (merchant not
\* found, store not found, an exception in a step) writes nothing to
\* settlement_day and counts the row under the counter of that outcome and
\* under no other; indeed no step of the submitter but the recording of a
\* success changes the table.
C5_NoWriteUnlessSuccess ==
    [][/\ ~(RecordStep /\ result = "success") => table' = table
       /\ (RecordStep /\ result # "success") =>
             /\ stats'[CategoryOf(result)] > stats[CategoryOf(result)]
             /\ \A f \in DOMAIN stats \ {CategoryOf(result)} :
                   stats'[f] = stats[f]]_vars

\* A no-eligible outcome has been recorded for a due row, whose from_date
\* is what it was when the row was queued.
C5_Witness ==
    /\ spc = "finally" /\ result = "no_eligible"
    /\ stats.no_eligible = 1
    /\ RowOf(table, cur.record_id).from_date = cur.from_date
    /\ cur.from_date # Sentinel

\* C6: whatever happens while a queued row is handled (in the selection of
\* merchant and store, the dates, the submission or the return to the
\* creation form), the run goes on: after the row's finally block comes the
\* next queued row, or the final report after the last one.
C6_RowFailureIsolated ==
    [][spc = "finally" => spc' \in {"row", "report"}]_vars

\* ------------------------------------------------------- importer's claims
\* Two rows name the same store: (merchant_name, store_name) compared
\* without regard to letter case.
SamePair(m1, s1, m2, s2) == Lower(m1) = Lower(m2) /\ Lower(s1) = Lower(s2)

OneRowPerPair(tbl) ==
    \A i, j \in 1..Len(tbl) :
        i # j => ~SamePair(tbl[i].merchant_name, tbl[i].store_name,
                           tbl[j].merchant_name, tbl[j].store_name)

\* The key a report row is upserted under, and whether it has one.
KeyOf(rrow) == [m |-> Strip(Str(rrow.Merchant)), s |-> Strip(Str(rrow.Store))]

HasKey(rrow) == KeyOf(rrow).m # <<>> /\ KeyOf(rrow).s # <<>>

\* The report rows that name the store of a table row.
RowsFor(rep, row) ==
    {k \in 1..Len(rep) :
        /\ HasKey(rep[k])
        /\ SamePair(KeyOf(rep[k]).m, KeyOf(rep[k]).s,
                    row.merchant_name, row.store_name)}

\* The day columns a report gives a store: those of the last report row
\* naming it, and none when no row names it.
FlagsOfReport(rep, row) ==
    IF RowsFor(rep, row) = {} THEN NoDays
    ELSE parse_days(rep[CHOOSE k \in RowsFor(rep, row) :
                            \A l \in RowsFor(rep, row) : l <= k].WithdrawDays)

\* A row but for its day columns.
Identity(row) == [row EXCEPT !.days = NoDays]

\* C7 as stated: the from_date of an existing row changes only in the
\* submitter's step that records a success for that row; no step of the
\* importer script changes it.
C7_OnlySubmitterWritesFromDate ==
    [][\A i \in 1..Len(table) :
          table'[i].from_date # table[i].from_date
             => /\ RecordStep
                /\ result = "success"
                /\ cur.record_id = table[i].id]_vars

\* C7 as amended: the from_date of an existing row changes only in the
\* submitter's step that records a success for that row, or in the
\* importer script's activate_default_stores, which replaces the sentinel
\* from_date of a store that has a transaction; the importer's clear and
\* upsert never change the from_date of an existing row.
C7_FromDateWriters ==
    [][\A i \in 1..Len(table) :
          table'[i].from_date # table[i].from_date
             => \/ /\ RecordStep
                   /\ result = "success"
                   /\ cur.record_id = table[i].id
                \/ /\ ipc = "activate"
                   /\ table[i].from_date = Sentinel
                   /\ table'[i].is_default_date = 0]_vars

\* The importer script has activated a store that the upsert of the same
\* run left with the sentinel.
C7_Witness ==
    /\ ipc = "exit"
    /\ \E i \in 1..Len(tableAtStart) :
          /\ i <= Len(table)
          /\ tableAtStart[i].from_date = Sentinel
          /\ table[i].from_date < Sentinel

\* C8: the importer keeps one row per (merchant_name, store_name) compared
\* case-insensitively: no two rows of the table, or of the open
\* transaction, name the same store, and once the upserts are committed
\* every report row that has a key has its row.
C8_OneRowPerPair ==
    /\ OneRowPerPair(table)
    /\ OneRowPerPair(conn)
    /\ ipc = "activate" =>
          \A k \in 1..Len(report) :
             HasKey(report[k]) =>
                \E i \in 1..Len(table) :
                   SamePair(KeyOf(report[k]).m, KeyOf(report[k]).s,
                            table[i].merchant_name, table[i].store_name)

\* A second run has committed a report that names one store twice, in
\* different letter case, and the table holds that store once.
C8_Witness ==
    /\ ipc = "activate" /\ impRuns = 2
    /\ Len(report) = 2
    /\ HasKey(report[1]) /\ HasKey(report[2])
    /\ KeyOf(report[1]).m # KeyOf(report[2]).m
    /\ SamePair(KeyOf(report[1]).m, KeyOf(report[1]).s,
                KeyOf(report[2]).m, KeyOf(report[2]).s)
    /\ Cardinality({i \in 1..Len(table) :
          SamePair(KeyOf(report[1]).m, KeyOf(report[1]).s,
                   table[i].merchant_name, table[i].store_name)}) = 1

C10_UpsertFrame ==
    [][(ipc = "upsert" /\ ri' = ri + 1 /\ HasKey(report[ri])) =>
          LET key == KeyOf(report[ri])
              hit(row) == SamePair(key.m, key.s,
                                   row.merchant_name, row.store_name)
          IN IF \E i \in 1..Len(conn) : hit(conn[i])
             THEN /\ Len(conn') = Len(conn)
                  /\ \A i \in 1..Len(conn) :
                        IF hit(conn[i])
                        THEN Identity(conn'[i]) = Identity(conn[i])
                        ELSE conn'[i] = conn[i]
             ELSE /\ Len(conn') = Len(conn) + 1
                  /\ SubSeq(conn', 1, Len(conn)) = conn
                  /\ conn'[Len(conn')].from_date = Sentinel
                  /\ conn'[Len(conn')].merchant_name = key.m
                  /\ conn'[Len(conn')].store_name = key.s]_vars

\* The upsert has updated an activated store that the report names in
\* other letter case: its days are the report's, its from_date and names
\* its own.
C10_Witness ==
    /\ ipc = "upsert" /\ ri = 2
    /\ report[1].Merchant = <<"a">>
    /\ Len(conn) = Len(tableAtStart)
    /\ conn[1].merchant_name = <<"A">>
    /\ conn[1].from_date = InitFromDate
    /\ conn[1].days["Monday"] = ImporterMark

\* ------------------------------------------- the two scripts on one table
\* The ids of the rows a submitter run has queued.
QueuedIds == {df_today[j].id : j \in 1..Len(df_today)}

\* C11: the marker the importer writes is one the submitter takes as set:
\* once a submitter run that follows an import has selected its rows, every
\* row whose column for today's weekday holds the importer's marker and
\* whose from_date is not the sentinel is among the queued rows.
C11_ImportedMarkIsDue ==
    (impRuns > 0 /\ bd_today_name # "") =>
        \A i \in 1..Len(table) :
            (/\ table[i].days[bd_today_name] = ImporterMark
             /\ table[i].from_date # Sentinel)
                => table[i].id \in QueuedIds

\* C12: the due-today filter takes today's column as set exactly when the
\* stored value is one of the recognized markers 1, TRUE, True, true, the
\* two check marks, x, X: once a run has selected its rows, a row is queued
\* iff its column for today holds one of them.
C12_DueIffRecognized ==
    bd_today_name # "" =>
        \A i \in 1..Len(table) :
            table[i].id \in QueuedIds
               <=> table[i].days[bd_today_name] \in TICK_INDICATORS

\* The calendar day of the model's first week that has a weekday name.
DayOfName(name) == CHOOSE d \in 0..6 : WeekdayName(d) = name

\* 2024-03-04T19:30:00Z on the model's clock.
UtcExample == 19 * 2 + 1

\* C13: the weekday that selects the due rows and the to_date of every
\* submitted window come from the same instant of Asia/Dhaka time: the
\* to_date of a submitted row is the day before the calendar day whose
\* name selected it, also when midnight passes during the run; and at
\* 2024-03-04T19:30:00Z today is Tuesday, March 5.
C13_SameInstant ==
    /\ (spc = "record" /\ cur.clicked)
          => cur.to_date = DayOfName(bd_today_name) - 1
    /\ get_bd_today_name(UtcExample) = "Tuesday"
    /\ get_bd_today(UtcExample) = 1

\* A weekday name or other word of a descriptor, in lower case.
LowerWord(w) ==
    CASE w = "Monday" -> "monday" [] w = "Tuesday" -> "tuesday"
      [] w = "Wednesday" -> "wednesday" [] w = "Thursday" -> "thursday"
      [] w = "Friday" -> "friday" [] w = "Saturday" -> "saturday"
      [] w = "Sunday" -> "sunday" [] OTHER -> w

\* A weekday's name occurs in a descriptor outside its parentheses, in any
\* letter case and whatever stands around it.
OccursIn(d, desc) ==
    \E k \in 1..Len(RemoveParens(desc)) :
        LowerWord(RemoveParens(desc)[k]) = LowerWord(d)

\* C14: parse_days sets a weekday on iff its name occurs in the descriptor
\* outside the parentheses, in any letter case and with any separators, and
\* leaves it empty otherwise: after the upsert of a report row the day
\* columns of the store's row are exactly those; and the example
\* "Monday, Wednesday (excluding holidays), Friday" gives Monday, Wednesday
\* and Friday.
C14_ParseDaysByOccurrence ==
    /\ (ipc = "upsert" /\ ri > 1 /\ HasKey(report[ri - 1])) =>
          \A i \in 1..Len(conn) :
             SamePair(KeyOf(report[ri - 1]).m, KeyOf(report[ri - 1]).s,
                      conn[i].merchant_name, conn[i].store_name)
                => \A d \in DayNames :
                      conn[i].days[d] =
                         IF OccursIn(d, report[ri - 1].WithdrawDays)
                         THEN ImporterMark ELSE EmptyMark
    /\ \A d \in DayNames :
          parse_days(DescExample)[d] =
             IF d \in {"Monday", "Wednesday", "Friday"}
             THEN ImporterMark ELSE EmptyMark

\* A report cell that names nothing: absent from the file, or blank.
MissingCell(cell) == cell = NaN \/ Strip(cell) = <<>>

\* C15: a report row whose merchant or store cell is missing is skipped:
\* its step of the upsert loop leaves the open transaction as it was, no
\* row inserted and none updated.
C15_MissingKeySkipped ==
    [][(/\ ipc = "upsert" /\ ri' = ri + 1
        /\ (MissingCell(report[ri].Merchant) \/ MissingCell(report[ri].Store)))
          => conn' = conn]_vars

\* The days update_from_date wrote into the row of an id.
AdvancedDays(id) == {p[2] : p \in {q \in advanced : q[1] = id}}

\* A row as the committed advancements leave it: from_date is the day of
\* the last one, every other column as it was.
Advance(row) ==
    IF AdvancedDays(row.id) = {} THEN row
    ELSE [row EXCEPT !.from_date =
             CHOOSE d \in AdvancedDays(row.id) :
                 \A e \in AdvancedDays(row.id) : e <= d]

\* C16: every advancement is committed on its own: wherever a run stands,
\* and so after a crash at any point, each row update_from_date has written
\* holds the day of that write as from_date, and every other row, and every
\* other column, is as it was before the runs.
C16_AdvancesCommittedAlone ==
    \E T \in InitTables :
        /\ Len(T) = Len(table)
        /\ \A i \in 1..Len(T) : table[i] = Advance(T[i])

\* The run crashed on its second row: the first, advanced today, keeps
\* today as from_date, and the second is as the run read it.
C16_Witness ==
    /\ spc = "crashed" /\ Len(df_today) = 2 /\ idx = 2
    /\ <<df_today[1].id, get_bd_today(now)>> \in advanced
    /\ RowOf(table, df_today[1].id).from_date = get_bd_today(now)
    /\ RowOf(table, df_today[1].id).from_date # df_today[1].from_date
    /\ RowOf(table, df_today[2].id) = df_today[2]

\* C17: concurrent runs are not safe: a submitter that reads the table
\* after the importer's clear has committed and before its upserts commit
\* reads a table without any day flag, and a run that has read no day flag
\* queues nothing and ends.
C17_ReadBetweenClearAndCommit ==
    [][/\ (spc = "read" /\ spc' = "filter" /\ ipc = "upsert")
             => \A i \in 1..Len(df') : df'[i].days = NoDays
       /\ (/\ spc = "filter" /\ spc' # "filter"
           /\ \A i \in 1..Len(df) : df[i].days = NoDays)
             => df_today' = <<>> /\ spc' = "exit"]_vars

\* The importer's upserts are not committed yet, and a submitter that
\* started during the import has already queued nothing for today, although
\* a store was due today before the import and the report schedules it for
\* today again.
C17_Witness ==
    /\ ipc = "upsert" /\ spc = "exit" /\ bd_today_name # ""
    /\ df_today = <<>>
    /\ \E i \in 1..Len(tableAtStart) :
          /\ IsDueRow(tableAtStart[i], bd_today_name)
          /\ FlagsOfReport(report, tableAtStart[i])[bd_today_name] = ImporterMark

\* C18: every run of the submitter ends with its aggregate report: when
\* main() reaches its end (the finally block of line 650), the final report
\* of lines 601-644 has been written, however many rows were due and
\* whatever failed.
C18_RunEndsWithReport == spc = "exit" => reported

\* C19: whenever the submitter starts on a queued row the session is logged
\* in and on the settlement creation form: it got there by the login of the
\* set-up, by the navigation back after the row before, or, when that
\* navigation failed, by a new browser and a fresh login.
C19_RowStartsOnForm ==
    spc \in {"row", "submit"} => session \in {"form", "form anew"}

\* The second queued row is about to be processed in a browser that was
\* recreated after the navigation back from the first row had failed.
C19_Witness ==
    /\ spc = "row" /\ idx = 2
    /\ stats.total_queued = 2
    /\ session = "form anew"

\* C20: the normalization of clean_day_columns is idempotent: applied to
\* the frame a run has read and cleaned, it changes nothing, whatever the
\* stored day-column values were.
C20_CleanIdempotent == spc = "filter" => clean_day_columns(df) = df

\* C21  A script that finds one of its three settings missing ends at once
\* with its message and exit status 1: it is at the exit of its
\* configuration test, with no browser session, nothing read from
\* settlement_day, no open connection, and the table as it was.
C21_MissingConfigExits ==
    [][ /\ (spc' # "idle" /\ ConfigMissing(subEnv')) =>
             /\ spc' = "sys.exit"
             /\ session' = "none" /\ df' = <<>> /\ table' = table
        /\ (ipc' # "idle" /\ ConfigMissing(impEnv')) =>
             /\ ipc' = "raise"
             /\ conn' = <<>> /\ report' = <<>> /\ table' = table ]_vars

C21_Witness ==
    /\ spc = "sys.exit" /\ subEnv.DATABASE_URL = "" /\ subEnv.EMAIL = "set"
    /\ session = "none" /\ impRuns > 0

\* A row the exclusion list ex names: its pair is listed, or its merchant is
\* listed with an empty store.
Excluded(r, ex) ==
    \/ <<r.merchant_name, r.store_name>> \in ex
    \/ <<r.merchant_name, <<>>>> \in ex

\* C22  A row the caller's exclusion list names is not among the rows
\* queued for today, so no settlement is submitted for it and it is in no
\* tally.
C22_ExcludedNotQueued ==
    \A j \in 1..Len(df_today) : ~Excluded(df_today[j], subEnv.EXCLUSIONS)

\* The page showed a success signal in one of the rounds of the wait.
SawSuccess(polls) ==
    \E k \in 1..Len(polls) :
        polls[k].url = "away" \/ polls[k].success_icon = "found"

\* C23  After a click, when submit_and_verify_settlement returns, it
\* returns success, no_eligible or uncertain: no_eligible exactly when the
\* first check found the warning icon with the title or the message,
\* whatever the wait would have shown; success only when a round of the
\* wait saw the URL away from the creation page or the success icon; and
\* uncertain in every other case.
C23_VerifyClassifies ==
    (spc = "record" /\ cur.clicked /\ result # "exception") =>
        /\ result \in Results
        /\ result = "no_eligible" <=> NoTransactions(cur.seen.first)
        /\ result = "success" => SawSuccess(cur.seen.polls)
        /\ result = "uncertain" <=>
              /\ ~NoTransactions(cur.seen.first)
              /\ ~SawSuccess(cur.seen.polls)

C23_Witness ==
    /\ spc = "record" /\ cur.clicked /\ result = "no_eligible"
    /\ cur.seen.first.warning_icon /\ cur.seen.first.no_transaction_msg
    /\ ~cur.seen.first.no_transaction_title
    /\ Len(cur.seen.polls) = 2 /\ cur.seen.polls[2].success_icon = "found"

\* C24  Every window the submitter submits is well-formed: when the button
\* has been clicked for a row, the from date entered is not later than the
\* to date entered, which is yesterday in Dhaka.
C24_WindowWellFormed ==
    (spc = "record" /\ cur.clicked) => cur.from_date <= cur.to_date

\* C25  The write that follows a successful submission of the window
\* [from_date, to_date] sets the row's from_date to to_date + 1, the day
\* after the last day submitted, also when midnight in Dhaka passes
\* between the computation of to_date and the write.
C25_NextWindowAdjoins ==
    [][(RecordStep /\ result = "success" /\ table' # table) =>
          RowOf(table', cur.record_id).from_date = cur.to_date + 1]_vars

\* C26  Each queued row is counted under exactly one of confirmed_success,
\* no_eligible, uncertain and errors, so in the final report total_queued
\* is the sum of the four.
C26_CountersAddUp ==
    reported =>
        stats.total_queued = stats.confirmed_success + stats.no_eligible
                               + stats.uncertain + stats.errors

\* C27  The importer commits the clearing of the day columns on its own,
\* keeps every upsert of the run uncommitted until the end of the run's one
\* transaction, and when an upsert (or the commit) fails leaves the table
\* as the clearing left the table the run started from: no row inserted or
\* updated by the run, every day column unset, every from_date as it was.
C27_FailedUpsertLeavesCleared ==
    [][/\ (ipc = "clear" /\ ipc' = "upsert") =>
             table' = clear_day_columns(table)
       /\ (ipc = "upsert" /\ ipc' = "upsert") => table' = table
       /\ (ipc = "upsert" /\ ipc' = "exit") =>
             /\ table' = clear_day_columns(tableAtStart)
             /\ Len(table') = Len(tableAtStart)
             /\ \A i \in 1..Len(table') :
                   /\ table'[i].days = NoDays
                   /\ table'[i].from_date = tableAtStart[i].from_date]_vars

\* The second upsert of a run failed after the first went through: the
\* table has lost the flags it had before the run and gained nothing.
C27_Witness ==
    /\ ipc = "exit" /\ Len(report) = 2 /\ ri = 2
    /\ tableAtStart # <<>> /\ table # tableAtStart
    /\ table = clear_day_columns(tableAtStart)
    /\ \E i \in 1..Len(tableAtStart) : tableAtStart[i].days # NoDays

\* The number of rounds the retry loop in progress may have begun.
RoundsOf(loop) ==
    IF loop = "wait" THEN MaxPolls
    ELSE IF loop = "init" THEN max_init_retries
    ELSE max_retries

\* C28  Every run of the submitter ends: no retry loop (driver
\* initialisation, login, the wait for the outcome, navigation back to the
\* form) begins more rounds than its bound, the row loop only moves on to
\* the next queued row, and a run that has started comes to its end.
C28_RunTerminates ==
    /\ [](attempt.n < RoundsOf(attempt.loop))
    /\ [][idx' \in {idx, idx + 1, 0}]_vars
    /\ (spc # "idle") ~> (spc = "idle")

\* A run ends after its third login round failed.
C28_Witness ==
    /\ spc = "exit" /\ attempt = [loop |-> "login", n |-> max_retries - 1]
    /\ session = "away" /\ ~reported

====
